---- MODULE Spec2Model ----
(***************************************************************************)
(* A model of backend/services/knowledge_store.py: the file-backed store   *)
(* of glossary terms, documents and quizzes.                               *)
(*                                                                         *)
(* Text is modelled as a sequence of character codes, so that strip(),     *)
(* lower() and the ordering list.sort() uses are computed, not assumed.    *)
(* Bytes are sequences of byte values; 255 is a byte no UTF-8 text holds.  *)
(***************************************************************************)
EXTENDS Integers, Sequences, FiniteSets, TLC

VARIABLES
    terms,      \* "terms" collection of the snapshot file, when it parses
    documents,  \* "documents" collection of the snapshot file
    quizzes,    \* "quizzes" collection of the snapshot file
    fileState,  \* text of the snapshot file: "full", "empty" or "partial"
    files,      \* the documents directory: path -> bytes
    nextUuid,   \* how many uuid4() values were drawn
    clock,      \* how many _now() values were drawn
    last,       \* the last operation: its arguments, the state before, its outcome
    pc,         \* per concurrent task: where it is in upsert_term
    local,      \* per concurrent task: its loaded snapshot, its payload
    crashed     \* the process was killed

vars == <<terms, documents, quizzes, fileState, files, nextUuid, clock, last,
          pc, local, crashed>>

(***************************************************************************)
(* Bounds of the model.                                                    *)
(***************************************************************************)
MaxClock == 3
MaxUuid == 3
MaxDocs == 2
MaxQuizUuid == 5
NTasks == 3

(***************************************************************************)
(* Python values.                                                          *)
(***************************************************************************)
\* entry.get("id") is None or "": falsy, so `or str(uuid4())` draws an id
NoId == 0
\* None in an optional text field; no text holds the code 0
NoneText == <<0>>
\* ids a caller may send that uuid4() never produced
ForeignIds == {-1}

Min(a, b) == IF a <= b THEN a ELSE b

\* the set of elements of a sequence
Range(s) == {s[i] : i \in DOMAIN s}

(***************************************************************************)
(* str.strip(), str.lower(), and the order of str under <.                 *)
(***************************************************************************)
IsSpace(c) == c \in {9, 10, 13, 32}

RECURSIVE LStrip(_)
LStrip(s) ==
    IF s # <<>> /\ IsSpace(Head(s)) THEN LStrip(Tail(s)) ELSE s

RECURSIVE RStrip(_)
RStrip(s) ==
    IF s # <<>> /\ IsSpace(s[Len(s)]) THEN RStrip(SubSeq(s, 1, Len(s) - 1)) ELSE s

Strip(s) == RStrip(LStrip(s))

LowerChar(c) == IF c >= 65 /\ c <= 90 THEN c + 32 ELSE c

Lower(s) == [i \in DOMAIN s |-> LowerChar(s[i])]

\* a <= b for two str: the first differing code decides, else the length
StrLeq(a, b) ==
    LET n == Min(Len(a), Len(b))
        diff == {i \in 1..n : a[i] # b[i]}
    IN  IF diff = {}
        THEN Len(a) <= Len(b)
        ELSE LET k == CHOOSE i \in diff : \A j \in diff : i <= j
             IN  a[k] < b[k]

\* needle in haystack
Contains(needle, hay) ==
    \E i \in 0..(Len(hay) - Len(needle)) :
        \A j \in 1..Len(needle) : hay[i + j] = needle[j]

\* (x or "")
OrEmpty(x) == IF x = NoneText THEN <<>> ELSE x

(***************************************************************************)
(* list.sort(key=lambda item: item.get("term", "")): stable, ascending.    *)
(***************************************************************************)
TermSortKey(item) == item.term

InsertByTerm(sorted, x) ==
    LET p == Cardinality({i \in DOMAIN sorted :
                            StrLeq(TermSortKey(sorted[i]), TermSortKey(x))})
    IN  SubSeq(sorted, 1, p) \o <<x>> \o SubSeq(sorted, p + 1, Len(sorted))

RECURSIVE SortByTerm(_)
SortByTerm(s) ==
    IF s = <<>> THEN <<>>
    ELSE InsertByTerm(SortByTerm(SubSeq(s, 1, Len(s) - 1)), s[Len(s)])

(***************************************************************************)
(* _read and _now, uuid4.                                                  *)
(***************************************************************************)
EmptySnapshot == [terms |-> <<>>, documents |-> <<>>, quizzes |-> <<>>]

\* json.load of the file, or the empty snapshot on JSONDecodeError
ReadSnapshot ==
    IF fileState = "full"
    THEN [terms |-> terms, documents |-> documents, quizzes |-> quizzes]
    ELSE EmptySnapshot

Now == clock + 1

Uuid4 == nextUuid + 1

(***************************************************************************)
(* Term operations, as functions of the loaded list.                       *)
(***************************************************************************)
\* the loop of upsert_term: the first item that has the id or the text
TermMatches(item, entry_id, term_lower) ==
    item.id = entry_id \/ item.term = term_lower

FindExisting(ts, entry_id, term_lower) ==
    LET hits == {i \in DOMAIN ts : TermMatches(ts[i], entry_id, term_lower)}
    IN  IF hits = {} THEN 0 ELSE CHOOSE i \in hits : \A j \in hits : i <= j

\* entry.get("term", "").strip()
NormalizeTerm(text) == Strip(text)

\* upsert_term on the loaded list ts: the list written back and the record returned
UpsertTermOn(ts, entry, uuid, now) ==
    LET entry_id == IF entry.id = NoId THEN uuid ELSE entry.id
        term_lower == NormalizeTerm(entry.term)
        ex == FindExisting(ts, entry_id, term_lower)
        record == [id |-> entry_id,
                   term |-> term_lower,
                   translation |-> entry.translation,
                   notes |-> entry.notes,
                   categories |-> entry.categories,
                   created_at |-> IF ex # 0 THEN ts[ex].created_at ELSE now,
                   updated_at |-> now]
        merged == IF ex # 0
                  THEN [i \in DOMAIN ts |->
                          IF ts[i].id = ts[ex].id THEN record ELSE ts[i]]
                  ELSE Append(ts, record)
    IN  [terms |-> SortByTerm(merged), record |-> record]

TermAllowList == {"term", "translation", "notes", "categories"}

\* item.update({k: v for k, v in updates.items() if k in allow-list})
ApplyTermUpdates(item, updates, now) ==
    [f \in DOMAIN item |->
        IF f = "updated_at" THEN now
        ELSE IF f \in (DOMAIN updates) \cap TermAllowList THEN updates[f]
        ELSE item[f]]

FindById(s, id) ==
    LET hits == {i \in DOMAIN s : s[i].id = id}
    IN  IF hits = {} THEN 0 ELSE CHOOSE i \in hits : \A j \in hits : i <= j

\* list_terms: the filter, then the sort
TermSearchHit(item, needle) ==
    \/ Contains(needle, Lower(item.term))
    \/ Contains(needle, Lower(OrEmpty(item.translation)))
    \/ Contains(needle, Lower(OrEmpty(item.notes)))

ListTermsOn(ts, search) ==
    LET kept == IF search # <<>>
                THEN SelectSeq(ts, LAMBDA item : TermSearchHit(item, Lower(search)))
                ELSE ts
    IN  SortByTerm(kept)

(***************************************************************************)
(* Inputs.                                                                 *)
(***************************************************************************)
\* "a", "A", "B", " a"
TermTexts == {<<97>>, <<65>>, <<66>>, <<32, 97>>}

EntryFields ==
    {[translation |-> NoneText, notes |-> NoneText, categories |-> <<>>],
     [translation |-> <<116>>, notes |-> <<110>>, categories |-> <<"c1">>]}

StoredTermIds == {terms[i].id : i \in DOMAIN terms}

Entries ==
    {[id |-> i, term |-> t, translation |-> f.translation, notes |-> f.notes,
      categories |-> f.categories] :
        i \in {NoId} \cup StoredTermIds \cup ForeignIds, t \in TermTexts, f \in EntryFields}

TermUpdates ==
    {[term |-> <<65>>],
     [translation |-> <<116>>, notes |-> NoneText],
     [id |-> -1, created_at |-> 0, categories |-> <<"c2">>]}

Searches == {<<>>, <<97>>, <<65>>}

(***************************************************************************)
(* The store after construction: __init__ wrote the empty snapshot.        *)
(***************************************************************************)
Init ==
    /\ terms = <<>>
    /\ documents = <<>>
    /\ quizzes = <<>>
    /\ fileState = "full"
    /\ files = <<>>
    /\ nextUuid = 0
    /\ clock = 0
    /\ last = [op |-> "init"]
    /\ pc = [t \in 1..NTasks |-> "start"]
    /\ local = [t \in 1..NTasks |-> EmptySnapshot]
    /\ crashed = FALSE

(***************************************************************************)
(* Term operations, each one whole call.                                   *)
(***************************************************************************)
UpsertTerm(entry) ==
    /\ clock < MaxClock
    /\ entry.id = NoId => nextUuid < MaxUuid
    /\ LET data == ReadSnapshot
           out == UpsertTermOn(data.terms, entry, Uuid4, Now)
       IN  /\ terms' = out.terms
           /\ documents' = data.documents
           /\ quizzes' = data.quizzes
           /\ fileState' = "full"
           /\ last' = [op |-> "upsert_term", entry |-> entry,
                       before |-> data.terms, result |-> out.record]
    /\ nextUuid' = IF entry.id = NoId THEN nextUuid + 1 ELSE nextUuid
    /\ clock' = clock + 1
    /\ UNCHANGED <<files, pc, local, crashed>>

UpdateTerm(entry_id, updates) ==
    /\ clock < MaxClock
    /\ LET data == ReadSnapshot
           ix == FindById(data.terms, entry_id)
       IN  IF ix # 0
           THEN /\ terms' = SortByTerm([data.terms EXCEPT
                                ![ix] = ApplyTermUpdates(@, updates, Now)])
                /\ documents' = data.documents
                /\ quizzes' = data.quizzes
                /\ fileState' = "full"
                /\ clock' = clock + 1
                /\ last' = [op |-> "update_term", id |-> entry_id, updates |-> updates,
                            before |-> data.terms, found |-> TRUE,
                            result |-> ApplyTermUpdates(data.terms[ix], updates, Now)]
           ELSE /\ UNCHANGED <<terms, documents, quizzes, fileState, clock>>
                /\ last' = [op |-> "update_term", id |-> entry_id, updates |-> updates,
                            before |-> data.terms, found |-> FALSE]
    /\ UNCHANGED <<files, nextUuid, pc, local, crashed>>

DeleteTerm(entry_id) ==
    /\ LET data == ReadSnapshot
           new_terms == SelectSeq(data.terms, LAMBDA item : item.id # entry_id)
       IN  IF Len(new_terms) = Len(data.terms)
           THEN /\ UNCHANGED <<terms, documents, quizzes, fileState>>
                /\ last' = [op |-> "delete_term", id |-> entry_id,
                            before |-> data.terms, result |-> FALSE]
           ELSE /\ terms' = new_terms
                /\ documents' = data.documents
                /\ quizzes' = data.quizzes
                /\ fileState' = "full"
                /\ last' = [op |-> "delete_term", id |-> entry_id,
                            before |-> data.terms, result |-> TRUE]
    /\ UNCHANGED <<files, nextUuid, clock, pc, local, crashed>>

ListTerms(search) ==
    /\ last' = [op |-> "list_terms", search |-> search,
                before |-> ReadSnapshot.terms,
                result |-> ListTermsOn(ReadSnapshot.terms, search)]
    /\ UNCHANGED <<terms, documents, quizzes, fileState, files, nextUuid, clock,
                   pc, local, crashed>>

NextTerms ==
    \/ \E entry \in Entries : UpsertTerm(entry)
    \/ \E id \in StoredTermIds \cup ForeignIds, u \in TermUpdates : UpdateTerm(id, u)
    \/ \E id \in StoredTermIds \cup ForeignIds : DeleteTerm(id)
    \/ \E s \in Searches : ListTerms(s)

SpecTerms == Init /\ [][NextTerms]_vars

(***************************************************************************)
(* bytes.decode("utf-8", errors="ignore") and str.encode("utf-8"), for     *)
(* code points below 2048: one byte below 128, else a lead byte 194..223   *)
(* and a continuation byte 128..191. A byte that starts no valid sequence  *)
(* is dropped.                                                             *)
(***************************************************************************)
IsLead2(b) == b >= 194 /\ b <= 223

IsCont(b) == b >= 128 /\ b <= 191

RECURSIVE Utf8DecodeIgnore(_)
Utf8DecodeIgnore(bs) ==
    IF bs = <<>> THEN <<>>
    ELSE IF bs[1] < 128 THEN <<bs[1]>> \o Utf8DecodeIgnore(Tail(bs))
    ELSE IF IsLead2(bs[1]) /\ Len(bs) >= 2 /\ IsCont(bs[2])
         THEN <<(bs[1] - 192) * 64 + (bs[2] - 128)>> \o Utf8DecodeIgnore(Tail(Tail(bs)))
    ELSE Utf8DecodeIgnore(Tail(bs))

RECURSIVE Utf8Encode(_)
Utf8Encode(text) ==
    IF text = <<>> THEN <<>>
    ELSE (IF text[1] < 128 THEN <<text[1]>>
          ELSE <<192 + (text[1] \div 64), 128 + (text[1] % 64)>>)
         \o Utf8Encode(Tail(text))

(***************************************************************************)
(* PyPDF2.PdfReader(BytesIO(content)): it raises unless the bytes are a    *)
(* PDF. A PDF is modelled as the header byte "%" followed by one byte per  *)
(* page: 255 is a page with no extractable text, any other byte a page     *)
(* whose text is that character.                                           *)
(***************************************************************************)
PdfReadable(content) == content # <<>> /\ content[1] = 37

\* [page.extract_text() or "" for page in reader.pages]
PdfPageTexts(content) ==
    [i \in 1..(Len(content) - 1) |->
        IF content[i + 1] = 255 THEN <<>> ELSE <<content[i + 1]>>]

\* "".join(parts): the pages run together, no separator between them
RECURSIVE JoinLinesNoSeparator(_)
JoinLinesNoSeparator(parts) ==
    IF parts = <<>> THEN <<>>
    ELSE parts[1] \o JoinLinesNoSeparator(Tail(parts))

\* "\n".join(parts)
RECURSIVE JoinLines(_)
JoinLines(parts) ==
    IF parts = <<>> THEN <<>>
    ELSE IF Len(parts) = 1 THEN parts[1]
    ELSE parts[1] \o <<10>> \o JoinLines(Tail(parts))

ExtTxt == <<46, 116, 120, 116>>
ExtMd == <<46, 109, 100>>
ExtCsv == <<46, 99, 115, 118>>
ExtPdf == <<46, 112, 100, 102>>

\* _extract_text raises: only PdfReader can
ExtractRaises(extension, content) ==
    extension = ExtPdf /\ ~PdfReadable(content)

\* _extract_text, when it returns
ExtractText(extension, content) ==
    IF extension \in {ExtTxt, ExtMd, ExtCsv} THEN Utf8DecodeIgnore(content)
    ELSE IF extension = ExtPdf THEN JoinLines(PdfPageTexts(content))
    ELSE Utf8DecodeIgnore(content)

(***************************************************************************)
(* pathlib: Path(filename).suffix and .stem, for a name without "/".       *)
(***************************************************************************)
LastDot(name) ==
    LET dots == {i \in DOMAIN name : name[i] = 46}
    IN  IF dots = {} THEN 0 ELSE CHOOSE i \in dots : \A j \in dots : j <= i

Suffix(name) ==
    LET i == LastDot(name)
    IN  IF i > 1 /\ i < Len(name) THEN SubSeq(name, i, Len(name)) ELSE <<>>

Stem(name) ==
    LET i == LastDot(name)
    IN  IF i > 1 /\ i < Len(name) THEN SubSeq(name, 1, i - 1) ELSE name

\* f"document-{doc_id}": the uuid is written as one character, never a "."
DefaultFilename(doc_id) ==
    <<100, 111, 99, 117, 109, 101, 110, 116, 45, 48 + doc_id>>

\* (x or y) for an optional str: None and "" are falsy
OrElse(x, y) == IF x = NoneText \/ x = <<>> THEN y ELSE x

\* DOCUMENTS_DIR / f"{doc_id}{extension}"
DocPath(doc_id, extension) == <<doc_id, extension>>

(***************************************************************************)
(* The documents directory.                                                *)
(***************************************************************************)
Exists(fs, path) == path \in DOMAIN fs

WriteFile(fs, path, bytes) ==
    [p \in (DOMAIN fs) \cup {path} |-> IF p = path THEN bytes ELSE fs[p]]

Unlink(fs, path) == [p \in (DOMAIN fs) \ {path} |-> fs[p]]

\* if path.exists(): path.unlink()
UnlinkIfExists(fs, path) == IF Exists(fs, path) THEN Unlink(fs, path) ELSE fs

(***************************************************************************)
(* Document inputs.                                                        *)
(***************************************************************************)
\* None, "a.txt", "s.PDF", "d.bin"
Filenames ==
    {NoneText, <<97, 46, 116, 120, 116>>, <<115, 46, 80, 68, 70>>,
     <<100, 46, 98, 105, 110>>}

\* b"", "e-acute" in two bytes followed by b"\xff", and three PDFs: one page
\* of text, one page without text, two pages without text
Contents ==
    {<<>>, <<195, 169, 255>>, <<37, 97>>, <<37, 255>>, <<37, 255, 255>>}

DocumentInputs ==
    {[filename |-> f, title |-> NoneText, summary |-> NoneText, categories |-> <<>>] :
        f \in Filenames}
    \cup {[filename |-> <<97, 46, 116, 120, 116>>, title |-> <<84>>,
           summary |-> <<115>>, categories |-> <<"c1">>]}

StoredDocIds == {documents[i].id : i \in DOMAIN documents}

(***************************************************************************)
(* Document operations, each one whole call.                               *)
(***************************************************************************)
AddDocument(document, content) ==
    /\ clock < MaxClock
    /\ nextUuid < MaxDocs
    /\ LET data == ReadSnapshot
           doc_id == Uuid4
           filename == OrElse(document.filename, DefaultFilename(doc_id))
           extension == OrElse(Lower(Suffix(filename)), ExtTxt)
           original_path == DocPath(doc_id, extension)
           written == WriteFile(files, original_path, content)
           text_path == DocPath(doc_id, ExtTxt)
           record == [id |-> doc_id,
                      filename |-> filename,
                      title |-> OrElse(document.title, Stem(filename)),
                      summary |-> document.summary,
                      categories |-> document.categories,
                      stored_path |-> text_path,
                      original_path |-> original_path,
                      created_at |-> Now,
                      updated_at |-> Now]
       IN  IF ExtractRaises(extension, content)
           THEN /\ files' = written
                /\ UNCHANGED <<terms, documents, quizzes, fileState>>
                /\ last' = [op |-> "add_document", document |-> document,
                            content |-> content, extension |-> extension,
                            raised |-> TRUE]
           ELSE /\ files' = WriteFile(written, text_path,
                                      Utf8Encode(ExtractText(extension, content)))
                /\ terms' = data.terms
                /\ documents' = Append(data.documents, record)
                /\ quizzes' = data.quizzes
                /\ fileState' = "full"
                /\ last' = [op |-> "add_document", document |-> document,
                            content |-> content, extension |-> extension,
                            raised |-> FALSE, result |-> record]
    /\ nextUuid' = nextUuid + 1
    /\ clock' = clock + 1
    /\ UNCHANGED <<pc, local, crashed>>

\* delete_document unlinking the sidecar path twice and the original never
DeletedPathsSidecarOnly(docs, doc_id) ==
    LET hits == {i \in DOMAIN docs : docs[i].id = doc_id}
        d == docs[CHOOSE i \in hits : \A j \in hits : j <= i]
    IN  <<d.stored_path, d.stored_path>>

\* the paths delete_document unlinks: those of the last record that has the id
DeletedPaths(docs, doc_id) ==
    LET hits == {i \in DOMAIN docs : docs[i].id = doc_id}
        d == docs[CHOOSE i \in hits : \A j \in hits : j <= i]
    IN  <<d.stored_path, d.original_path>>

DeleteDocument(doc_id) ==
    /\ LET data == ReadSnapshot
           new_docs == SelectSeq(data.documents, LAMBDA doc : doc.id # doc_id)
       IN  IF Len(new_docs) = Len(data.documents)
           THEN /\ UNCHANGED <<terms, documents, quizzes, fileState, files>>
                /\ last' = [op |-> "delete_document", id |-> doc_id,
                            before |-> data.documents, filesBefore |-> files,
                            result |-> FALSE]
           ELSE /\ files' = UnlinkIfExists(
                                UnlinkIfExists(files, DeletedPaths(data.documents, doc_id)[1]),
                                DeletedPaths(data.documents, doc_id)[2])
                /\ terms' = data.terms
                /\ documents' = new_docs
                /\ quizzes' = data.quizzes
                /\ fileState' = "full"
                /\ last' = [op |-> "delete_document", id |-> doc_id,
                            before |-> data.documents, filesBefore |-> files,
                            result |-> TRUE]
    /\ UNCHANGED <<nextUuid, clock, pc, local, crashed>>

\* delete_document killed after `done` of its two unlinks and before _write;
\* the process is started again (__init__ finds the snapshot file and keeps it)
DeleteDocumentKilled(doc_id, done) ==
    /\ doc_id \in StoredDocIds
    /\ LET paths == DeletedPaths(ReadSnapshot.documents, doc_id)
           first == UnlinkIfExists(files, paths[1])
       IN  files' = IF done = 1 THEN first ELSE UnlinkIfExists(first, paths[2])
    /\ files' # files
    /\ last' = [op |-> "delete_document_killed", id |-> doc_id]
    /\ UNCHANGED <<terms, documents, quizzes, fileState, nextUuid, clock,
                   pc, local, crashed>>

\* path.read_text(encoding="utf-8"), on UnicodeDecodeError latin-1: each byte
\* is its own character
Utf8Valid(bs) == Utf8Encode(Utf8DecodeIgnore(bs)) = bs

ReadText(fs, path) ==
    IF ~Exists(fs, path) THEN [raised |-> TRUE, none |-> FALSE, text |-> <<>>]
    ELSE [raised |-> FALSE, none |-> FALSE,
          text |-> IF Utf8Valid(fs[path]) THEN Utf8DecodeIgnore(fs[path]) ELSE fs[path]]

ReturnNone == [raised |-> FALSE, none |-> TRUE, text |-> <<>>]

\* read_document_text going to read_text without asking whether the path exists
ReadDocumentTextUnchecked(docs, fs, doc_id) ==
    IF FindById(docs, doc_id) = 0 THEN ReturnNone
    ELSE ReadText(fs, docs[FindById(docs, doc_id)].stored_path)

\* read_document_text on the loaded documents and the documents directory
ReadDocumentTextOn(docs, fs, doc_id) ==
    IF FindById(docs, doc_id) = 0 THEN ReturnNone
    ELSE IF ~Exists(fs, docs[FindById(docs, doc_id)].stored_path) THEN ReturnNone
    ELSE ReadText(fs, docs[FindById(docs, doc_id)].stored_path)

ReadDocumentText(doc_id) ==
    /\ last' = [op |-> "read_document_text", id |-> doc_id,
                before |-> ReadSnapshot.documents,
                result |-> ReadDocumentTextOn(ReadSnapshot.documents, files, doc_id)]
    /\ UNCHANGED <<terms, documents, quizzes, fileState, files, nextUuid, clock,
                   pc, local, crashed>>

\* doc.update({k: v for k, v in updates.items() if k in allow-list}) that also
\* lets the id and the paths through
DocumentAllowListWithPaths ==
    {"title", "summary", "categories", "id", "stored_path", "original_path"}

DocumentAllowList == {"title", "summary", "categories"}

ApplyDocumentUpdates(doc, updates, now) ==
    [f \in DOMAIN doc |->
        IF f = "updated_at" THEN now
        ELSE IF f \in (DOMAIN updates) \cap DocumentAllowList THEN updates[f]
        ELSE doc[f]]

DocumentUpdates ==
    {[title |-> <<85>>],
     [id |-> -1, stored_path |-> DocPath(-1, ExtTxt), created_at |-> 0,
      summary |-> <<115, 50>>]}

UpdateDocument(doc_id, updates) ==
    /\ clock < MaxClock
    /\ LET data == ReadSnapshot
           ix == FindById(data.documents, doc_id)
       IN  IF ix # 0
           THEN /\ documents' = [data.documents EXCEPT
                                    ![ix] = ApplyDocumentUpdates(@, updates, Now)]
                /\ terms' = data.terms
                /\ quizzes' = data.quizzes
                /\ fileState' = "full"
                /\ clock' = clock + 1
                /\ last' = [op |-> "update_document", id |-> doc_id,
                            updates |-> updates, before |-> data.documents,
                            found |-> TRUE,
                            result |-> ApplyDocumentUpdates(data.documents[ix], updates, Now)]
           ELSE /\ UNCHANGED <<terms, documents, quizzes, fileState, clock>>
                /\ last' = [op |-> "update_document", id |-> doc_id,
                            updates |-> updates, before |-> data.documents,
                            found |-> FALSE]
    /\ UNCHANGED <<files, nextUuid, pc, local, crashed>>

NextDocs ==
    \/ \E d \in DocumentInputs, c \in Contents : AddDocument(d, c)
    \/ \E id \in StoredDocIds \cup ForeignIds : DeleteDocument(id)
    \/ \E id \in StoredDocIds, k \in {1, 2} : DeleteDocumentKilled(id, k)
    \/ \E id \in StoredDocIds \cup ForeignIds : ReadDocumentText(id)

SpecDocs == Init /\ [][NextDocs]_vars

(***************************************************************************)
(* Concurrent upsert_term calls on one store, and a kill of the process.   *)
(* The class holds no lock, so the steps of the calls interleave: _read,   *)
(* then open(path, "w"), which empties the file, then json.dump and the    *)
(* close of the handle, which put the text there.                          *)
(***************************************************************************)
Tasks == 1..NTasks

\* task t upserts the t-th letter after "`", without an id: "a", "b", "c", ...
TaskEntry(t) ==
    [id |-> NoId, term |-> <<96 + t>>, translation |-> NoneText,
     notes |-> NoneText, categories |-> <<>>]

\* line 46: data = self._read()
TaskRead(t) ==
    /\ ~crashed
    /\ pc[t] = "start"
    /\ local' = [local EXCEPT ![t] = ReadSnapshot]
    /\ pc' = [pc EXCEPT ![t] = "loaded"]
    /\ UNCHANGED <<terms, documents, quizzes, fileState, files, nextUuid, clock,
                   last, crashed>>

\* lines 47-75 on the loaded data, then line 37: open(path, "w") truncates
TaskOpenWrite(t) ==
    /\ ~crashed
    /\ pc[t] = "loaded"
    /\ LET out == UpsertTermOn(local[t].terms, TaskEntry(t), Uuid4, Now)
       IN  local' = [local EXCEPT ![t] =
                        [terms |-> out.terms, documents |-> local[t].documents,
                         quizzes |-> local[t].quizzes,
                         prev |-> ReadSnapshot, overwritten |-> FALSE]]
    /\ nextUuid' = nextUuid + 1
    /\ clock' = clock + 1
    /\ terms' = <<>>
    /\ documents' = <<>>
    /\ quizzes' = <<>>
    /\ fileState' = "empty"
    /\ pc' = [pc EXCEPT ![t] = "writing"]
    /\ UNCHANGED <<files, last, crashed>>

\* line 38: json.dump has filled the buffer once and part of the text is on disk
TaskFlushPart(t) ==
    /\ ~crashed
    /\ pc[t] = "writing"
    /\ fileState = "empty"
    /\ fileState' = "partial"
    /\ UNCHANGED <<terms, documents, quizzes, files, nextUuid, clock, last,
                   pc, local, crashed>>

\* line 38 and the end of the with block: the whole text is on disk. When
\* another handle wrote the file since this one truncated it, this text lies
\* over the other's: the file holds this payload, or a text that does not parse.
TaskClose(t, garbled) ==
    /\ ~crashed
    /\ pc[t] = "writing"
    /\ garbled => local[t].overwritten
    /\ IF garbled
       THEN /\ fileState' = "partial"
            /\ terms' = <<>>
            /\ documents' = <<>>
            /\ quizzes' = <<>>
       ELSE /\ fileState' = "full"
            /\ terms' = local[t].terms
            /\ documents' = local[t].documents
            /\ quizzes' = local[t].quizzes
    /\ pc' = [pc EXCEPT ![t] = "done"]
    /\ local' = [u \in Tasks |->
                    IF u # t /\ pc[u] = "writing"
                    THEN [local[u] EXCEPT !.overwritten = TRUE]
                    ELSE local[u]]
    /\ UNCHANGED <<files, nextUuid, clock, last, crashed>>

\* the process is killed while calls are in flight
Crash ==
    /\ ~crashed
    /\ \E t \in Tasks : pc[t] \in {"loaded", "writing"}
    /\ crashed' = TRUE
    /\ UNCHANGED <<terms, documents, quizzes, fileState, files, nextUuid, clock,
                   last, pc, local>>

NextTasks ==
    \/ \E t \in Tasks : TaskRead(t)
    \/ \E t \in Tasks : TaskOpenWrite(t)
    \/ \E t \in Tasks : TaskFlushPart(t)
    \/ \E t \in Tasks, g \in BOOLEAN : TaskClose(t, g)
    \/ Crash

SpecTasks == Init /\ [][NextTasks]_vars

(***************************************************************************)
(* Quiz operations. A question is a dict: a function from its keys, of     *)
(* which "id" may be missing or None (NoId).                               *)
(***************************************************************************)
\* question.get("id")
QuestionId(question) == IF "id" \in DOMAIN question THEN question.id ELSE NoId

\* question.setdefault("id", uuid): a key that is there, even with None, stays
SetDefaultId(question, uuid) ==
    IF "id" \in DOMAIN question THEN question
    ELSE [f \in (DOMAIN question) \cup {"id"} |->
            IF f = "id" THEN uuid ELSE question[f]]

\* dict.update(updates)
DictUpdate(d, updates) ==
    [f \in (DOMAIN d) \cup (DOMAIN updates) |->
        IF f \in DOMAIN updates THEN updates[f] ELSE d[f]]

\* "Study Quiz"
DefaultQuizTitle == <<83, 116, 117, 100, 121, 32, 81, 117, 105, 122>>

\* quizzes.sort(key=created_at, reverse=True): stable, newest first
InsertByCreatedDesc(sorted, x) ==
    LET p == Cardinality({i \in DOMAIN sorted : sorted[i].created_at >= x.created_at})
    IN  SubSeq(sorted, 1, p) \o <<x>> \o SubSeq(sorted, p + 1, Len(sorted))

RECURSIVE SortByCreatedDesc(_)
SortByCreatedDesc(s) ==
    IF s = <<>> THEN <<>>
    ELSE InsertByCreatedDesc(SortByCreatedDesc(SubSeq(s, 1, Len(s) - 1)), s[Len(s)])

\* add_quiz on the loaded list: uuid4() is called once for the quiz id when the
\* quiz has none, then once per question, in order
AddQuizOn(qs, quiz, uuid, now) ==
    LET drawn == IF quiz.id = NoId THEN 1 ELSE 0
        quiz_id == IF quiz.id = NoId THEN uuid ELSE quiz.id
        questions == [i \in DOMAIN quiz.questions |->
                        SetDefaultId(quiz.questions[i], uuid + drawn + i - 1)]
        record == [id |-> quiz_id,
                   title |-> OrElse(quiz.title, DefaultQuizTitle),
                   category |-> quiz.category,
                   questions |-> questions,
                   created_at |-> IF quiz.created_at = 0 THEN now ELSE quiz.created_at,
                   updated_at |-> now,
                   metadata |-> quiz.metadata]
        ix == FindById(qs, quiz_id)
        merged == IF ix # 0 THEN [qs EXCEPT ![ix] = record] ELSE Append(qs, record)
    IN  [quizzes |-> SortByCreatedDesc(merged), record |-> record,
         draws |-> drawn + Len(quiz.questions)]

\* the first question of the quiz that has the id, or 0
FindQuestion(quiz, question_id) ==
    LET hits == {k \in DOMAIN quiz.questions :
                    QuestionId(quiz.questions[k]) = question_id}
    IN  IF hits = {} THEN 0 ELSE CHOOSE k \in hits : \A j \in hits : k <= j

\* the quiz and question update_quiz_question returns: the last quiz that has
\* the id and has such a question, and the first such question in it
PatchTarget(qs, quiz_id, question_id) ==
    LET hits == {i \in DOMAIN qs :
                    qs[i].id = quiz_id /\ FindQuestion(qs[i], question_id) # 0}
    IN  IF hits = {} THEN <<0, 0>>
        ELSE LET i == CHOOSE i \in hits : \A j \in hits : j <= i
             IN  <<i, FindQuestion(qs[i], question_id)>>

\* update_quiz_question that stamps the question, not its quiz
PatchQuizzesStampingQuestion(qs, quiz_id, question_id, updates, now) ==
    [i \in DOMAIN qs |->
        IF qs[i].id = quiz_id /\ FindQuestion(qs[i], question_id) # 0
        THEN [qs[i] EXCEPT
                !.questions[FindQuestion(qs[i], question_id)] =
                    DictUpdate(DictUpdate(@, updates), [updated_at |-> now])]
        ELSE qs[i]]

\* the loops of update_quiz_question on the loaded list
PatchQuizzesOn(qs, quiz_id, question_id, updates, now) ==
    [i \in DOMAIN qs |->
        IF qs[i].id = quiz_id /\ FindQuestion(qs[i], question_id) # 0
        THEN [qs[i] EXCEPT
                !.questions[FindQuestion(qs[i], question_id)] = DictUpdate(@, updates),
                !.updated_at = now]
        ELSE qs[i]]

\* record_quiz_attempt keeping the answer and the time, not the verdict
AttemptUpdatesWithoutVerdict(attempt) ==
    [user_answer |-> attempt.user_input,
     answered_at |-> attempt.answered_at]

\* the updates record_quiz_attempt passes to update_quiz_question
AttemptUpdates(attempt) ==
    [user_answer |-> attempt.user_input,
     is_correct |-> attempt.is_correct,
     answered_at |-> attempt.answered_at]

\* list_quizzes
ListQuizzesOn(qs, category) ==
    SortByCreatedDesc(IF category # NoneText /\ category # <<>>
                      THEN SelectSeq(qs, LAMBDA quiz : quiz.category = category)
                      ELSE qs)

(***************************************************************************)
(* Quiz inputs.                                                            *)
(***************************************************************************)
\* questions without id, with "id": None, and with a caller's id
QuestionInputs ==
    {<<[question |-> "q1", answer |-> "a1"]>>,
     <<[id |-> NoId, question |-> "q1", answer |-> "a1"]>>,
     <<[question |-> "q1", answer |-> "a1"], [question |-> "q2", answer |-> "a2"]>>,
     <<[id |-> -1, question |-> "q1", answer |-> "a1"],
       [id |-> -1, question |-> "q2", answer |-> "a2"]>>}

StoredQuizIds == {quizzes[i].id : i \in DOMAIN quizzes}

StoredQuestionIds ==
    UNION {{QuestionId(quizzes[i].questions[k]) : k \in DOMAIN quizzes[i].questions} :
              i \in DOMAIN quizzes} \ {NoId}

QuizCategories == {NoneText, <<99>>}

QuizInputs ==
    {[id |-> i, title |-> NoneText, category |-> NoneText, questions |-> q,
      created_at |-> 0, metadata |-> <<>>] :
        i \in {NoId} \cup StoredQuizIds, q \in QuestionInputs}
    \cup {[id |-> NoId, title |-> <<81>>, category |-> <<99>>,
           questions |-> <<>>, created_at |-> 1, metadata |-> <<>>]}

QuestionUpdates ==
    {[user_answer |-> "a1"],
     [id |-> NoId, question |-> "q3"]}

Attempts ==
    {[quiz_id |-> z, question_id |-> q, user_input |-> "a2", is_correct |-> FALSE,
      answered_at |-> 9] :
        z \in StoredQuizIds \cup ForeignIds, q \in StoredQuestionIds \cup ForeignIds}

(***************************************************************************)
(* Quiz operations, each one whole call.                                   *)
(***************************************************************************)
AddQuiz(quiz) ==
    /\ clock < MaxClock
    /\ LET data == ReadSnapshot
           out == AddQuizOn(data.quizzes, quiz, Uuid4, Now)
       IN  /\ nextUuid + out.draws <= MaxQuizUuid
           /\ quizzes' = out.quizzes
           /\ terms' = data.terms
           /\ documents' = data.documents
           /\ fileState' = "full"
           /\ nextUuid' = nextUuid + out.draws
           /\ last' = [op |-> "add_quiz", quiz |-> quiz, before |-> data.quizzes,
                       result |-> out.record]
    /\ clock' = clock + 1
    /\ UNCHANGED <<files, pc, local, crashed>>

\* update_quiz_question, and what it leaves in `last`; `op` names the caller
PatchQuestion(op, input, quiz_id, question_id, updates) ==
    /\ clock < MaxClock
    /\ LET data == ReadSnapshot
           target == PatchTarget(data.quizzes, quiz_id, question_id)
           patched == PatchQuizzesOn(data.quizzes, quiz_id, question_id, updates, Now)
           again == /\ last.op = op
                    /\ last.quiz_id = quiz_id
                    /\ last.question_id = question_id
                    /\ last.updates = updates
           seen == [op |-> op, input |-> input, quiz_id |-> quiz_id,
                    question_id |-> question_id, updates |-> updates,
                    before |-> data.quizzes, target |-> target,
                    again |-> again,
                    earlier |-> IF again THEN last.target ELSE <<0, 0>>]
       IN  IF target # <<0, 0>>
           THEN /\ quizzes' = patched
                /\ terms' = data.terms
                /\ documents' = data.documents
                /\ fileState' = "full"
                /\ clock' = clock + 1
                /\ last' = [f \in (DOMAIN seen) \cup {"found", "result"} |->
                              IF f = "found" THEN TRUE
                              ELSE IF f = "result"
                                   THEN patched[target[1]].questions[target[2]]
                              ELSE seen[f]]
           ELSE /\ UNCHANGED <<terms, documents, quizzes, fileState, clock>>
                /\ last' = [f \in (DOMAIN seen) \cup {"found"} |->
                              IF f = "found" THEN FALSE ELSE seen[f]]
    /\ UNCHANGED <<files, nextUuid, pc, local, crashed>>

UpdateQuizQuestion(quiz_id, question_id, updates) ==
    PatchQuestion("update_quiz_question", updates, quiz_id, question_id, updates)

\* SupabaseService.record_quiz_attempt: the patch, whose result it drops
RecordQuizAttempt(attempt) ==
    PatchQuestion("record_quiz_attempt", attempt, attempt.quiz_id,
                  attempt.question_id, AttemptUpdates(attempt))

\* delete_quiz writing a snapshot that holds the quizzes alone
DeleteQuizDroppingOthers(quiz_id) ==
    /\ LET data == ReadSnapshot
           new_quizzes == SelectSeq(data.quizzes, LAMBDA quiz : quiz.id # quiz_id)
       IN  IF Len(new_quizzes) = Len(data.quizzes)
           THEN /\ UNCHANGED <<terms, documents, quizzes, fileState>>
                /\ last' = [op |-> "delete_quiz", id |-> quiz_id,
                            before |-> data.quizzes, result |-> FALSE]
           ELSE /\ quizzes' = new_quizzes
                /\ terms' = <<>>
                /\ documents' = <<>>
                /\ fileState' = "full"
                /\ last' = [op |-> "delete_quiz", id |-> quiz_id,
                            before |-> data.quizzes, result |-> TRUE]
    /\ UNCHANGED <<files, nextUuid, clock, pc, local, crashed>>

DeleteQuiz(quiz_id) ==
    /\ LET data == ReadSnapshot
           new_quizzes == SelectSeq(data.quizzes, LAMBDA quiz : quiz.id # quiz_id)
       IN  IF Len(new_quizzes) = Len(data.quizzes)
           THEN /\ UNCHANGED <<terms, documents, quizzes, fileState>>
                /\ last' = [op |-> "delete_quiz", id |-> quiz_id,
                            before |-> data.quizzes, result |-> FALSE]
           ELSE /\ quizzes' = new_quizzes
                /\ terms' = data.terms
                /\ documents' = data.documents
                /\ fileState' = "full"
                /\ last' = [op |-> "delete_quiz", id |-> quiz_id,
                            before |-> data.quizzes, result |-> TRUE]
    /\ UNCHANGED <<files, nextUuid, clock, pc, local, crashed>>

ListQuizzes(category) ==
    /\ last' = [op |-> "list_quizzes", category |-> category,
                before |-> ReadSnapshot.quizzes,
                result |-> ListQuizzesOn(ReadSnapshot.quizzes, category)]
    /\ UNCHANGED <<terms, documents, quizzes, fileState, files, nextUuid, clock,
                   pc, local, crashed>>

NextQuiz ==
    \/ \E quiz \in QuizInputs : AddQuiz(quiz)
    \/ \E z \in StoredQuizIds \cup ForeignIds, q \in StoredQuestionIds \cup ForeignIds,
          u \in QuestionUpdates : UpdateQuizQuestion(z, q, u)
    \/ \E attempt \in Attempts : RecordQuizAttempt(attempt)
    \/ \E z \in StoredQuizIds \cup ForeignIds : DeleteQuiz(z)
    \/ \E c \in QuizCategories : ListQuizzes(c)

SpecQuiz == Init /\ [][NextQuiz]_vars

(***************************************************************************)
(* Updates of terms and of documents, after the calls that create them.    *)
(***************************************************************************)
NextUpdates ==
    \/ \E entry \in Entries : UpsertTerm(entry)
    \/ \E id \in StoredTermIds \cup ForeignIds, u \in TermUpdates : UpdateTerm(id, u)
    \/ \E d \in DocumentInputs : AddDocument(d, <<97, 255>>)
    \/ \E id \in StoredDocIds \cup ForeignIds, u \in DocumentUpdates : UpdateDocument(id, u)

SpecUpdates == Init /\ [][NextUpdates]_vars

(***************************************************************************)
(* Loading the snapshot file when something other than the store has       *)
(* touched it. Besides "full", "empty" and "partial" the file can be       *)
(* "absent" (removed) or "list": well-formed JSON whose value is a list,   *)
(* not the dict of three collections.                                      *)
(***************************************************************************)
\* the file contents json.load fails on: JSONDecodeError, caught by _read
Undecodable == {"empty", "partial"}

\* open() in _read raises FileNotFoundError; it is not caught
OpenRaises == fileState = "absent"

\* _read returns the list, and the caller's data.get(...) raises AttributeError
GetRaises == fileState = "list"

\* a call that ends in an exception before it writes anything
Raise(call) ==
    /\ last' = [op |-> "raised", call |-> call, file |-> fileState]
    /\ UNCHANGED <<terms, documents, quizzes, fileState, files, nextUuid, clock,
                   pc, local, crashed>>

\* a call on the file as it is at load
OnLoad(call, action) ==
    IF OpenRaises \/ GetRaises THEN Raise(call) ELSE action

\* the file is removed by something outside the store
RemoveFile ==
    /\ fileState # "absent"
    /\ fileState' = "absent"
    /\ terms' = <<>>
    /\ documents' = <<>>
    /\ quizzes' = <<>>
    /\ last' = [op |-> "remove_file"]
    /\ UNCHANGED <<files, nextUuid, clock, pc, local, crashed>>

\* the file is given other content by something outside the store
OverwriteFile(kind) ==
    /\ fileState # kind
    /\ fileState' = kind
    /\ terms' = <<>>
    /\ documents' = <<>>
    /\ quizzes' = <<>>
    /\ last' = [op |-> "overwrite_file", kind |-> kind]
    /\ UNCHANGED <<files, nextUuid, clock, pc, local, crashed>>

\* __init__: writes the empty snapshot when the file does not exist
Construct ==
    /\ IF fileState = "absent"
       THEN /\ fileState' = "full"
            /\ terms' = <<>>
            /\ documents' = <<>>
            /\ quizzes' = <<>>
       ELSE UNCHANGED <<terms, documents, quizzes, fileState>>
    /\ last' = [op |-> "construct", file |-> fileState]
    /\ UNCHANGED <<files, nextUuid, clock, pc, local, crashed>>

NextLoad ==
    \/ RemoveFile
    \/ \E kind \in Undecodable \cup {"list"} : OverwriteFile(kind)
    \/ Construct
    \/ \E entry \in Entries : OnLoad("upsert_term", UpsertTerm(entry))
    \/ \E id \in StoredTermIds \cup ForeignIds : OnLoad("delete_term", DeleteTerm(id))
    \/ \E search \in Searches : OnLoad("list_terms", ListTerms(search))

SpecLoad == Init /\ [][NextLoad]_vars

(***************************************************************************)
(* The get operations and list_documents, and every operation of the three *)
(* collections on one store.                                               *)
(***************************************************************************)
\* the first record with the id, as a list of one, or None as the empty list
GetById(s, id) == IF FindById(s, id) = 0 THEN <<>> ELSE <<s[FindById(s, id)]>>

GetTerm(entry_id) ==
    /\ last' = [op |-> "get_term", id |-> entry_id,
                result |-> GetById(ReadSnapshot.terms, entry_id)]
    /\ UNCHANGED <<terms, documents, quizzes, fileState, files, nextUuid, clock,
                   pc, local, crashed>>

GetDocument(doc_id) ==
    /\ last' = [op |-> "get_document", id |-> doc_id,
                result |-> GetById(ReadSnapshot.documents, doc_id)]
    /\ UNCHANGED <<terms, documents, quizzes, fileState, files, nextUuid, clock,
                   pc, local, crashed>>

GetQuiz(quiz_id) ==
    /\ last' = [op |-> "get_quiz", id |-> quiz_id,
                result |-> GetById(ReadSnapshot.quizzes, quiz_id)]
    /\ UNCHANGED <<terms, documents, quizzes, fileState, files, nextUuid, clock,
                   pc, local, crashed>>

\* the characters of a category name
CategoryText(c) == IF c = "c1" THEN <<99, 49>> ELSE <<99, 50>>

\* " ".join(categories)
RECURSIVE JoinCategories(_)
JoinCategories(cats) ==
    IF cats = <<>> THEN <<>>
    ELSE IF Len(cats) = 1 THEN CategoryText(cats[1])
    ELSE CategoryText(cats[1]) \o <<32>> \o JoinCategories(Tail(cats))

DocumentSearchHit(doc, needle) ==
    \/ Contains(needle, Lower(doc.title))
    \/ Contains(needle, Lower(doc.filename))
    \/ Contains(needle, Lower(JoinCategories(doc.categories)))

\* docs.sort(key=lambda doc: doc.get("title", "")): stable, ascending
InsertByTitle(sorted, x) ==
    LET p == Cardinality({i \in DOMAIN sorted : StrLeq(sorted[i].title, x.title)})
    IN  SubSeq(sorted, 1, p) \o <<x>> \o SubSeq(sorted, p + 1, Len(sorted))

RECURSIVE SortByTitle(_)
SortByTitle(s) ==
    IF s = <<>> THEN <<>>
    ELSE InsertByTitle(SortByTitle(SubSeq(s, 1, Len(s) - 1)), s[Len(s)])

ListDocumentsOn(docs, search) ==
    LET kept == IF search # <<>>
                THEN SelectSeq(docs, LAMBDA doc : DocumentSearchHit(doc, Lower(search)))
                ELSE docs
    IN  SortByTitle(kept)

ListDocuments(search) ==
    /\ last' = [op |-> "list_documents", search |-> search,
                result |-> ListDocumentsOn(ReadSnapshot.documents, search)]
    /\ UNCHANGED <<terms, documents, quizzes, fileState, files, nextUuid, clock,
                   pc, local, crashed>>

\* "", "c1"
DocumentSearches == {<<>>, <<99, 49>>}

\* a few inputs of each collection
FrameEntries == {entry \in Entries : entry.term = <<97>> /\ entry.translation = NoneText}

FrameDocumentInputs == {d \in DocumentInputs : d.filename = <<97, 46, 116, 120, 116>>}

FrameQuizInputs ==
    {quiz \in QuizInputs : quiz.id = NoId /\ Len(quiz.questions) = 1
                           /\ "id" \notin DOMAIN quiz.questions[1]}

NextFrame ==
    \/ \E entry \in FrameEntries : UpsertTerm(entry)
    \/ \E id \in StoredTermIds \cup ForeignIds : UpdateTerm(id, [term |-> <<65>>])
    \/ \E id \in StoredTermIds \cup ForeignIds : DeleteTerm(id)
    \/ \E id \in StoredTermIds \cup ForeignIds : GetTerm(id)
    \/ ListTerms(<<97>>)
    \/ \E d \in FrameDocumentInputs : AddDocument(d, <<37, 97>>)
    \/ \E id \in StoredDocIds \cup ForeignIds : UpdateDocument(id, [title |-> <<85>>])
    \/ \E id \in StoredDocIds \cup ForeignIds : DeleteDocument(id)
    \/ \E id \in StoredDocIds \cup ForeignIds : GetDocument(id)
    \/ \E search \in DocumentSearches : ListDocuments(search)
    \/ \E id \in StoredDocIds \cup ForeignIds : ReadDocumentText(id)
    \/ \E quiz \in FrameQuizInputs : AddQuiz(quiz)
    \/ \E z \in StoredQuizIds \cup ForeignIds, q \in StoredQuestionIds \cup ForeignIds :
          UpdateQuizQuestion(z, q, [user_answer |-> "a1"])
    \/ \E attempt \in Attempts : RecordQuizAttempt(attempt)
    \/ \E z \in StoredQuizIds \cup ForeignIds : DeleteQuiz(z)
    \/ \E z \in StoredQuizIds \cup ForeignIds : GetQuiz(z)
    \/ ListQuizzes(NoneText)

SpecFrame == Init /\ [][NextFrame]_vars

(***************************************************************************)
(* The store under whole calls, one after another, on all collections.     *)
(***************************************************************************)
Next == NextTerms \/ NextDocs

Spec == Init /\ [][Next]_vars

(***************************************************************************)
(* Claims about the term repository.                                       *)
(***************************************************************************)
\* the case-insensitive normalized text of a stored or submitted term
NormKey(text) == Lower(Strip(text))

UniqueIds(s) == \A i, j \in DOMAIN s : s[i].id = s[j].id => i = j

\* C3: in every reachable state no two stored Terms have the same
\* case-insensitive normalized term text.
C3_UniqueNormalizedTerm ==
    \A i, j \in DOMAIN terms :
        NormKey(terms[i].term) = NormKey(terms[j].term) => i = j

\* the stored Terms whose text equals `text` up to letter case
SameTextUpToCase(s, text) == {i \in DOMAIN s : NormKey(s[i].term) = NormKey(text)}

\* C4: an upsert without id of a text that an earlier upsert without id stored
\* in another letter case leaves exactly one Term for the text, with the second
\* upsert's translation, notes and categories and the first one's created_at.
C4_SecondUpsertMerges ==
    (/\ last.op = "upsert_term"
     /\ last.entry.id = NoId
     /\ \E x \in DOMAIN last.before :
            /\ SameTextUpToCase(last.before, last.entry.term) = {x}
            /\ last.before[x].term # Strip(last.entry.term)
            /\ last.before[x].id \notin ForeignIds)
    => LET x == CHOOSE i \in DOMAIN last.before :
                    SameTextUpToCase(last.before, last.entry.term) = {i}
           now == SameTextUpToCase(terms, last.entry.term)
       IN  /\ Cardinality(now) = 1
           /\ \A i \in now :
                /\ terms[i].translation = last.entry.translation
                /\ terms[i].notes = last.entry.notes
                /\ terms[i].categories = last.entry.categories
                /\ terms[i].created_at = last.before[x].created_at

\* the upserts whose id is stored Term b's and whose text is another stored Term a's
IdAndTextHitDifferentTerms(a, b) ==
    /\ UniqueIds(last.before)
    /\ a \in DOMAIN last.before
    /\ b \in DOMAIN last.before
    /\ last.before[b].id = last.entry.id
    /\ last.before[a].id # last.entry.id
    /\ last.before[a].term = Strip(last.entry.term)

\* C5: when the entry's id is stored Term B's and its text is another stored
\* Term A's, B is the record overwritten, whatever the order of A and B in the
\* list, and the number of stored terms does not change.
C5_IdMatchedFirst ==
    last.op = "upsert_term" =>
        \A a, b \in DOMAIN last.before :
            IdAndTextHitDifferentTerms(a, b)
            => /\ Len(terms) = Len(last.before)
               /\ last.before[a] \in Range(terms)
               /\ last.before[b] \notin Range(terms)
               /\ last.result \in Range(terms)
               /\ last.result.created_at = last.before[b].created_at

SortedCaseInsensitive(s) ==
    \A i, j \in DOMAIN s : i < j => StrLeq(NormKey(s[i].term), NormKey(s[j].term))

\* C6: after every term mutation the persisted list is sorted ascending by
\* case-insensitive normalized term text, and list(search) returns its result
\* in that order.
C6_SortedByNormalizedTerm ==
    /\ SortedCaseInsensitive(terms)
    /\ last.op = "list_terms" => SortedCaseInsensitive(last.result)

(***************************************************************************)
(* Claims about the document repository.                                   *)
(***************************************************************************)
\* the last operation was an ingest that returned a Document
IngestReturned == last.op = "add_document" /\ ~last.raised

\* C7: after ingest returns, the artifact at original_path holds rawBytes
\* unchanged and the artifact at stored_path holds the extracted text.
C7_BothArtifactsKept ==
    IngestReturned =>
        /\ Exists(files, last.result.original_path)
        /\ files[last.result.original_path] = last.content
        /\ Exists(files, last.result.stored_path)
        /\ files[last.result.stored_path]
             = Utf8Encode(ExtractText(last.extension, last.content))

\* C8: every artifact file in the documents directory is named by the id of a
\* Document record present in the snapshot.
C8_NoOrphanArtifacts ==
    \A path \in DOMAIN files : path[1] \in StoredDocIds

\* the records of the document a delete was asked to remove
DeletedRecords == {d \in Range(last.before) : d.id = last.id}

\* C9: deleting an ingested document by its id returns true, removes the record
\* and leaves neither of its artifacts, also when an artifact was already missing.
C9_DeleteRemovesArtifacts ==
    (last.op = "delete_document" /\ DeletedRecords # {}) =>
        /\ last.result = TRUE
        /\ last.id \notin StoredDocIds
        /\ \A d \in DeletedRecords :
              /\ ~Exists(files, d.stored_path)
              /\ ~Exists(files, d.original_path)

\* a delete found both artifacts of the document, at two paths, and returned
C9_Witness ==
    /\ last.op = "delete_document"
    /\ last.result = TRUE
    /\ \E d \in DeletedRecords :
          /\ d.stored_path # d.original_path
          /\ Exists(last.filesBefore, d.stored_path)
          /\ Exists(last.filesBefore, d.original_path)

\* C10: ingest never fails in text extraction: it returns a Document, the
\* record is in the snapshot and the sidecar artifact exists.
C10_IngestNeverRaises ==
    last.op = "add_document" =>
        /\ ~last.raised
        /\ last.result \in Range(documents)
        /\ Exists(files, last.result.stored_path)

\* the bytes are a PDF of one or more pages, none with extractable text
PagesWithoutText(content) ==
    /\ PdfReadable(content)
    /\ Len(content) >= 2
    /\ \A i \in 2..Len(content) : content[i] = 255

IngestedPdfWithoutText ==
    /\ IngestReturned
    /\ last.extension = ExtPdf
    /\ PagesWithoutText(last.content)

\* C11 as stated: a .pdf of any number of pages, none with extractable text,
\* yields a Document whose extracted text is the empty string.
C11_NoTextPdfIsEmpty ==
    IngestedPdfWithoutText => files[last.result.stored_path] = <<>>

\* C11 as amended: the extracted text holds only the newline separators between
\* the pages, n-1 of them for n pages (the empty string for one page).
C11_NoTextPdfIsSeparators ==
    IngestedPdfWithoutText =>
        files[last.result.stored_path] = [i \in 1..(Len(last.content) - 2) |-> 10]

\* a PDF of two pages without text was ingested
C11_Witness ==
    IngestedPdfWithoutText /\ Len(last.content) = 3

\* C19: in every reachable state no two stored Terms have the same id.
C19_UniqueTermIds == UniqueIds(terms)

\* the stored Terms whose text is the text the entry is matched by
MatchedByText(s, entry) == {i \in DOMAIN s : s[i].term = Strip(entry.term)}

\* C20: an upsert without id that matches a stored Term by term text returns
\* and stores a record with that Term's id, so the id still finds the Term.
C20_TextMatchKeepsId ==
    (last.op = "upsert_term" /\ last.entry.id = NoId) =>
        \A i \in MatchedByText(last.before, last.entry) :
            /\ last.result.id = last.before[i].id
            /\ \E j \in DOMAIN terms : terms[j].id = last.before[i].id

(***************************************************************************)
(* Claims about documents with a missing sidecar, checked under SpecDocs.  *)
(***************************************************************************)
\* a record with the id is stored and no file is at its stored_path
SidecarMissing(docs, fs, doc_id) ==
    /\ FindById(docs, doc_id) # 0
    /\ ~Exists(fs, docs[FindById(docs, doc_id)].stored_path)

\* C17: when a document record is stored and its sidecar file is missing,
\* read_document_text returns None and does not raise, and a delete_document
\* of that document afterwards returns True and removes the record.
C17_MissingSidecarTolerated ==
    /\ (last.op = "read_document_text" /\ SidecarMissing(last.before, files, last.id)) =>
           /\ ~last.result.raised
           /\ last.result.none
    /\ (last.op = "delete_document"
            /\ SidecarMissing(last.before, last.filesBefore, last.id)) =>
           /\ last.result = TRUE
           /\ \A i \in DOMAIN documents : documents[i].id # last.id
           /\ \A i \in DOMAIN last.before :
                  last.before[i].id = last.id =>
                      /\ ~Exists(files, last.before[i].stored_path)
                      /\ ~Exists(files, last.before[i].original_path)

C17_Witness ==
    /\ last.op = "read_document_text"
    /\ SidecarMissing(last.before, files, last.id)

DeletedWithSidecarMissing ==
    /\ last.op = "delete_document"
    /\ SidecarMissing(last.before, last.filesBefore, last.id)

(***************************************************************************)
(* Claims about loading the snapshot file, checked under SpecLoad.         *)
(***************************************************************************)
\* C14: when the snapshot file is absent at the time an operation loads it,
\* the operation does not fail.
C14_AbsentFileLoadsEmpty ==
    last.op = "raised" => last.file # "absent"

\* C15: when the file is there and its content is not the three-collection
\* structure, whether undecodable or a well-formed value of another shape,
\* the operation does not raise.
C15_UnparseableFileLoadsEmpty ==
    last.op = "raised" => last.file \notin Undecodable \cup {"list"}

(***************************************************************************)
(* Claims about updates, checked under SpecUpdates.                        *)
(***************************************************************************)
\* `is` is `was` with the supplied fields of `allowed` taken from `updates`,
\* a later updated_at, and every other field as it was
ChangedOnlyIn(was, is, updates, allowed) ==
    /\ DOMAIN is = DOMAIN was
    /\ \A f \in DOMAIN was :
           IF f = "updated_at" THEN is[f] >= was[f]
           ELSE IF f \in allowed /\ f \in DOMAIN updates THEN is[f] = updates[f]
           ELSE is[f] = was[f]

\* the list `after` holds `record` in place of `before[ix]` and the other
\* records of `before`, in some order
ReplacedIn(before, after, ix, record) ==
    /\ Len(after) = Len(before)
    /\ \E at \in DOMAIN after :
           /\ after[at] = record
           /\ \E g \in [DOMAIN before \ {ix} -> DOMAIN after \ {at}] :
                  /\ \A a, b \in DOMAIN g : g[a] = g[b] => a = b
                  /\ \A a \in DOMAIN g : after[g[a]] = before[a]

UpdateStepKeepsFrame ==
    /\ (last'.op = "update_term" /\ last'.found) =>
           LET ix == FindById(terms, last'.id)
           IN  /\ ix # 0
               /\ ChangedOnlyIn(terms[ix], last'.result, last'.updates,
                                {"term", "translation", "notes", "categories"})
               /\ ReplacedIn(terms, terms', ix, last'.result)
               /\ UNCHANGED <<documents, quizzes, files>>
    /\ (last'.op = "update_document" /\ last'.found) =>
           LET ix == FindById(documents, last'.id)
           IN  /\ ix # 0
               /\ ChangedOnlyIn(documents[ix], last'.result, last'.updates,
                                {"title", "summary", "categories"})
               /\ documents' = [documents EXCEPT ![ix] = last'.result]
               /\ UNCHANGED <<terms, quizzes, files>>
    /\ (last'.op \in {"update_term", "update_document"} /\ ~last'.found) =>
           /\ \A i \in DOMAIN (IF last'.op = "update_term" THEN terms ELSE documents) :
                  (IF last'.op = "update_term" THEN terms ELSE documents)[i].id # last'.id
           /\ UNCHANGED <<terms, documents, quizzes, fileState, files>>
    /\ (last'.op \in {"update_term", "update_document"}) =>
           (last'.found <=>
               \E i \in DOMAIN (IF last'.op = "update_term" THEN terms ELSE documents) :
                  (IF last'.op = "update_term" THEN terms ELSE documents)[i].id = last'.id)

\* C13: an update of a term changes only term, translation, notes and
\* categories (and updated_at), an update of a document only title, summary
\* and categories (and updated_at); any other supplied field is ignored and
\* keeps its stored value; an update whose id matches no record returns None
\* and leaves the snapshot as it was.
C13_UpdateAllowList == [][UpdateStepKeepsFrame]_vars

C13_Witness ==
    /\ last.op = "update_document"
    /\ last.found
    /\ {"id", "stored_path", "created_at"} \subseteq DOMAIN last.updates
    /\ terms # <<>>

(***************************************************************************)
(* Claims about quizzes, checked under SpecQuiz.                           *)
(***************************************************************************)
\* C12: every question of every stored quiz has a non-empty id, and no two
\* questions of the same quiz share an id.
C12_QuestionIdsPresentAndUnique ==
    \A i \in DOMAIN quizzes :
        LET questions == quizzes[i].questions
        IN  /\ \A k \in DOMAIN questions : QuestionId(questions[k]) # NoId
            /\ \A j, k \in DOMAIN questions :
                   QuestionId(questions[j]) = QuestionId(questions[k]) => j = k

\* the attempt's quiz_id and question_id name a question stored before the call
AttemptNamesStoredQuestion ==
    \E i \in DOMAIN last.before :
        /\ last.before[i].id = last.input.quiz_id
        /\ \E k \in DOMAIN last.before[i].questions :
               QuestionId(last.before[i].questions[k]) = last.input.question_id

\* the question at <<i, k>> carries the attempt's three fields and is otherwise
\* as before; every other question, and the list of quizzes, is as before
AttemptRecordedAt(i, k) ==
    LET was == last.before[i].questions[k]
        is == quizzes[i].questions[k]
    IN  /\ last.before[i].id = last.input.quiz_id
        /\ QuestionId(was) = last.input.question_id
        /\ DOMAIN is = (DOMAIN was) \cup {"user_answer", "is_correct", "answered_at"}
        /\ \A f \in DOMAIN is :
               is[f] = CASE f = "user_answer" -> last.input.user_input
                         [] f = "is_correct" -> last.input.is_correct
                         [] f = "answered_at" -> last.input.answered_at
                         [] OTHER -> was[f]
        /\ \A j \in DOMAIN quizzes : \A h \in DOMAIN quizzes[j].questions :
               <<j, h>> # <<i, k>> => quizzes[j].questions[h] = last.before[j].questions[h]

\* C16: record_quiz_attempt on a stored question sets user_answer, is_correct
\* and answered_at on that question and on no other; when the quiz or the
\* question is not stored, the call returns and the snapshot is as before.
C16_AttemptRecordedOnOneQuestion ==
    last.op = "record_quiz_attempt" =>
        /\ Len(quizzes) = Len(last.before)
        /\ \A j \in DOMAIN quizzes :
               Len(quizzes[j].questions) = Len(last.before[j].questions)
        /\ IF AttemptNamesStoredQuestion
           THEN \E i \in DOMAIN quizzes : \E k \in DOMAIN quizzes[i].questions :
                    AttemptRecordedAt(i, k)
           ELSE quizzes = last.before /\ ~last.found

C16_Witness ==
    /\ last.op = "record_quiz_attempt"
    /\ AttemptNamesStoredQuestion
    /\ \E i \in DOMAIN quizzes :
           /\ quizzes[i].id = last.input.quiz_id
           /\ Len(quizzes[i].questions) >= 2

\* C18: a second update_quiz_question with the same quiz id, question id and
\* fields, directly after the first, leaves the question the first one
\* patched identical to what the first one made it.
C18_PatchQuestionIdempotent ==
    (/\ last.op = "update_quiz_question"
     /\ last.again
     /\ last.earlier # <<0, 0>>) =>
        LET i == last.earlier[1]
            k == last.earlier[2]
        IN  quizzes[i].questions[k] = last.before[i].questions[k]

C18_Witness ==
    /\ last.op = "update_quiz_question"
    /\ last.again
    /\ last.earlier # <<0, 0>>
    /\ last.found
    /\ last.target = last.earlier

(***************************************************************************)
(* The frame of each operation, checked under SpecFrame.                   *)
(***************************************************************************)
TermCalls == {"upsert_term", "update_term", "delete_term"}

DocumentCalls == {"add_document", "update_document", "delete_document"}

QuizCalls == {"add_quiz", "update_quiz_question", "record_quiz_attempt", "delete_quiz"}

ReadCalls == {"get_term", "list_terms", "get_document", "list_documents",
              "read_document_text", "get_quiz", "list_quizzes"}

StepKeepsOtherCollections ==
    /\ last'.op \in TermCalls => UNCHANGED <<documents, quizzes>>
    /\ last'.op \in DocumentCalls => UNCHANGED <<terms, quizzes>>
    /\ last'.op \in QuizCalls => UNCHANGED <<terms, documents>>
    /\ last'.op \in ReadCalls => UNCHANGED <<terms, documents, quizzes, fileState, files>>

\* C21: a call on one collection leaves the other two collections as they
\* were, and get, list and read_document_text leave the whole snapshot as
\* it was.
C21_OtherCollectionsUnchanged == [][StepKeepsOtherCollections]_vars

C21_Witness ==
    /\ last.op \in TermCalls
    /\ terms # last.before
    /\ documents # <<>>
    /\ \E i \in DOMAIN quizzes : quizzes[i].questions # <<>>

(***************************************************************************)
(* Claims about concurrent calls and about a kill during a save.           *)
(***************************************************************************)
AllDone == \A t \in Tasks : pc[t] = "done"

\* C1: after N concurrent upserts of N distinct texts against an empty store
\* have all completed, the store holds exactly N terms.
C1_NoLostUpsert ==
    AllDone => Len(ReadSnapshot.terms) = NTasks

Saving == {t \in Tasks : pc[t] = "writing"}

\* C2: if the process is killed during a save, the file afterwards holds the
\* complete previous snapshot or the complete new one, and a later load never
\* finds it empty, half-written or unparseable.
C2_KillLeavesCompleteSnapshot ==
    crashed =>
        /\ fileState = "full"
        /\ \A t \in Saving :
              (\A u \in Tasks \ {t} : pc[u] = "start") =>
                  \/ ReadSnapshot = local[t].prev
                  \/ ReadSnapshot.terms = local[t].terms

====
